---- MODULE Spec2Model ----
(***************************************************************************)
(* Edge partitions of complete geometric graphs: the geometry kernel, the  *)
(* edge/crossing graph builder, the cycle enumerator, the ILP model        *)
(* builder and the PST verification of src/helper.py and src/solver.py.    *)
(*                                                                         *)
(* Coordinates are integers.  The cos/sin coordinates of convex_position,  *)
(* of the wheels and of the randomized generators are kept in fixed point  *)
(* (Scale units per 1.0).  The sign of every orientation determinant of    *)
(* these point sets is the one the floating point code computes: where the *)
(* exact determinant is 0 and the floating point one is not (the origin    *)
(* and two opposite spokes of a wheel), FloatClockwise and                 *)
(* FloatCounterclockwise give its sign.  References to Edge objects are    *)
(* positions in edge_objs, the store of Edge objects in creation order.    *)
(***************************************************************************)
EXTENDS Integers, Sequences, FiniteSets, TLC

VARIABLES
    pc,               \* position of the run
    args,             \* the parsed command line
    points,           \* the list of Point objects
    edge_objs,        \* the Edge objects, by reference
    edges,            \* the list of Edge references
    calls,            \* set_crossings calls made on the edge list
    probe,            \* arguments and result of a single do_intersect call
    n, k,             \* SolverBase.n, SolverBase.k
    model,            \* the ILP model of _graph_to_ilp_model
    all_cycles,       \* the cycles _graph_to_ilp_model enumerated
    status,           \* model.Status after optimize
    X,                \* var.X of every variable after an OPTIMAL optimize
    colorclasses_nx,  \* SolverBase.colorclasses_nx
    pst_result,       \* the last is_pst_partition() call
    error             \* the exception that ended the run, "" when none

vars == <<pc, args, points, edge_objs, edges, calls, probe,
          n, k, model, all_cycles, status, X, colorclasses_nx, pst_result,
          error>>

(***************************************************************************)
(* Bounds of the model.                                                    *)
(***************************************************************************)
\* largest --n of a run
MaxN == 5
\* largest number of points of an arbitrary integer point set
MaxPts == 4
\* arbitrary integer point sets have coordinates in 0..SetGrid
SetGrid == 1
\* the endpoints of a single do_intersect call have coordinates in 0..Grid
Grid == 2
\* set_crossings is called at most MaxCalls times on one edge set
MaxCalls == 2
\* largest --n_colors of a run
MaxColors == 2
\* largest --k_planar of a run
MaxKPlanar == 1
\* the solving engine searches at most MaxSearch colorings (k^m)
MaxSearch == 1024
\* 0/1 assignments are enumerated in full for models of at most MaxVars variables
MaxVars == 12

\* largest n of a randomized generator call
MaxGenN == 4
\* largest explicit size of a random_position call
MaxGenSize == 2
\* random.uniform(0, 2 pi) is drawn from NumDirs directions
NumDirs == 4
\* random.uniform over a bounding box is drawn from the multiples of
\* 1 / WheelGrid
WheelGrid == 1
\* in a run, random_position draws its coordinates from 0..RunGrid
RunGrid == 2
\* a run with a randomized point set is modelled when one pass of the
\* generator's loop body has at most MaxRunDraws outcomes
MaxRunDraws == 7000
\* largest --k and --l of a bumpy wheel
MaxBumps == 3
\* largest number of groups and largest group of a generalized wheel
MaxGroups == 3
MaxGroupSize == 2
\* a generator call is modelled when one pass of its loop body can build at
\* most MaxCandidates point lists
MaxCandidates == 128

(***************************************************************************)
(* Program constants.                                                      *)
(***************************************************************************)
\* Edge.color before the result-assignment step (Python None)
None == -1
\* orientation's three results
COLLINEAR == 0
CLOCKWISE == 1
COUNTERCLOCKWISE == 2
\* fixed-point denominator of the cos/sin coordinates
Scale == 1000
\* random_position's default size is SizeFactor * n
SizeFactor == 10
\* radius of the outer circle of two_convex_layers
OuterRadius == 4

Abs(v) == IF v < 0 THEN -v ELSE v

\* classes.py Point(id, x, y)
Point(id, x, y) == [id |-> id, x |-> x, y |-> y]

\* classes.py Edge(id, p, q)
Edge(id, p, q) ==
    [id |-> id, p |-> p, q |-> q,
     num_intersections |-> 0, color |-> None, crossed_edges |-> <<>>]

(***************************************************************************)
(* Geometry kernel.                                                        *)
(***************************************************************************)
is_collinear(p1, p2, p3) ==
    \* abs(det) < 4*EPS: a determinant of integer (or fixed-point)
    \* coordinates is below 4*EPS exactly when it is 0
    Abs((p3.y - p2.y) * (p2.x - p1.x) - (p2.y - p1.y) * (p3.x - p2.x)) = 0

in_general_position(pts) ==
    \A i, j, l \in 1..Len(pts) :
        (i < j /\ j < l) => ~is_collinear(pts[i], pts[j], pts[l])

\* The triples <<p.x, p.y, q.x, q.y, r.x, r.y>> of wheel points (the origin
\* and two opposite points of the unit circle) whose determinant val is 0 in
\* fixed point and a rounding residue in floating point: those where the
\* residue is positive, and those where it is negative.
FloatClockwise ==
    { <<-1000, 0, 1000, 0, 0, 0>>, <<-995, -100, 995, 100, 0, 0>>,
      <<-980, -199, 0, 0, 980, 199>>, <<-943, -332, 943, 332, 0, 0>>,
      <<-905, -425, 905, 425, 0, 0>>, <<-858, -513, 0, 0, 858, 513>>,
      <<-803, -596, 803, 596, 0, 0>>, <<-739, -673, 0, 0, 739, 673>>,
      <<-673, 739, 673, -739, 0, 0>>, <<-596, 803, 596, -803, 0, 0>>,
      <<-513, 858, 0, 0, 513, -858>>, <<-425, 905, 425, -905, 0, 0>>,
      <<-332, 943, 332, -943, 0, 0>>, <<-199, 980, 199, -980, 0, 0>>,
      <<-100, 995, 0, 0, 100, -995>>, <<0, -1000, 0, 1000, 0, 0>>,
      <<0, 0, -1000, 0, 1000, 0>>, <<0, 0, -995, -100, 995, 100>>,
      <<0, 0, -943, -332, 943, 332>>, <<0, 0, -905, -425, 905, 425>>,
      <<0, 0, -803, -596, 803, 596>>, <<0, 0, -673, 739, 673, -739>>,
      <<0, 0, -596, 803, 596, -803>>, <<0, 0, -425, 905, 425, -905>>,
      <<0, 0, -332, 943, 332, -943>>, <<0, 0, -199, 980, 199, -980>>,
      <<0, 0, 0, -1000, 0, 1000>>, <<0, 0, 100, -995, -100, 995>>,
      <<0, 0, 513, -858, -513, 858>>, <<0, 0, 739, 673, -739, -673>>,
      <<0, 0, 858, 513, -858, -513>>, <<0, 0, 980, 199, -980, -199>>,
      <<0, 1000, 0, 0, 0, -1000>>, <<100, -995, -100, 995, 0, 0>>,
      <<199, -980, 0, 0, -199, 980>>, <<332, -943, 0, 0, -332, 943>>,
      <<425, -905, 0, 0, -425, 905>>, <<596, -803, 0, 0, -596, 803>>,
      <<673, -739, 0, 0, -673, 739>>, <<739, 673, -739, -673, 0, 0>>,
      <<803, 596, 0, 0, -803, -596>>, <<905, 425, 0, 0, -905, -425>>,
      <<943, 332, 0, 0, -943, -332>>, <<980, 199, -980, -199, 0, 0>>,
      <<995, 100, 0, 0, -995, -100>>, <<1000, 0, 0, 0, -1000, 0>> }

FloatCounterclockwise ==
    { <<-1000, 0, 0, 0, 1000, 0>>, <<-995, -100, 0, 0, 995, 100>>,
      <<-980, -199, 980, 199, 0, 0>>, <<-943, -332, 0, 0, 943, 332>>,
      <<-905, -425, 0, 0, 905, 425>>, <<-858, -513, 858, 513, 0, 0>>,
      <<-803, -596, 0, 0, 803, 596>>, <<-739, -673, 739, 673, 0, 0>>,
      <<-673, 739, 0, 0, 673, -739>>, <<-596, 803, 0, 0, 596, -803>>,
      <<-513, 858, 513, -858, 0, 0>>, <<-425, 905, 0, 0, 425, -905>>,
      <<-332, 943, 0, 0, 332, -943>>, <<-199, 980, 0, 0, 199, -980>>,
      <<-100, 995, 100, -995, 0, 0>>, <<0, -1000, 0, 0, 0, 1000>>,
      <<0, 0, -980, -199, 980, 199>>, <<0, 0, -739, -673, 739, 673>>,
      <<0, 0, -100, 995, 100, -995>>, <<0, 0, 0, 1000, 0, -1000>>,
      <<0, 0, 199, -980, -199, 980>>, <<0, 0, 332, -943, -332, 943>>,
      <<0, 0, 425, -905, -425, 905>>, <<0, 0, 596, -803, -596, 803>>,
      <<0, 0, 673, -739, -673, 739>>, <<0, 0, 803, 596, -803, -596>>,
      <<0, 0, 905, 425, -905, -425>>, <<0, 0, 943, 332, -943, -332>>,
      <<0, 0, 995, 100, -995, -100>>, <<0, 0, 1000, 0, -1000, 0>>,
      <<0, 1000, 0, -1000, 0, 0>>, <<100, -995, 0, 0, -100, 995>>,
      <<199, -980, -199, 980, 0, 0>>, <<332, -943, -332, 943, 0, 0>>,
      <<425, -905, -425, 905, 0, 0>>, <<513, -858, 0, 0, -513, 858>>,
      <<596, -803, -596, 803, 0, 0>>, <<673, -739, -673, 739, 0, 0>>,
      <<739, 673, 0, 0, -739, -673>>, <<803, 596, -803, -596, 0, 0>>,
      <<858, 513, 0, 0, -858, -513>>, <<905, 425, -905, -425, 0, 0>>,
      <<943, 332, -943, -332, 0, 0>>, <<980, 199, 0, 0, -980, -199>>,
      <<995, 100, -995, -100, 0, 0>>, <<1000, 0, -1000, 0, 0, 0>> }

orientation_onesided(p, q, r) ==
    LET val == (q.y - p.y) * (r.x - q.x) - (q.x - p.x) * (r.y - q.y)
    IN  IF val = 0 THEN COLLINEAR ELSE CLOCKWISE

orientation(p, q, r) ==
    LET val == (q.y - p.y) * (r.x - q.x) - (q.x - p.x) * (r.y - q.y)
        key == <<p.x, p.y, q.x, q.y, r.x, r.y>>
    IN  IF val = 0
        THEN IF key \in FloatClockwise THEN CLOCKWISE
             ELSE IF key \in FloatCounterclockwise THEN COUNTERCLOCKWISE
             ELSE COLLINEAR
        ELSE IF val > 0 THEN CLOCKWISE
        ELSE COUNTERCLOCKWISE

do_intersect_one_line(e1, e2) ==
    LET p1 == e1.p
        q1 == e1.q
        p2 == e2.p
        q2 == e2.q
        o1 == orientation(p1, q1, p2)
        o2 == orientation(p1, q1, q2)
        o3 == orientation(p2, q2, p1)
        o4 == orientation(p2, q2, q1)
    IN  IF p1.id = p2.id \/ p1.id = q2.id \/ q1.id = p2.id \/ q1.id = q2.id
        THEN FALSE
        ELSE o1 # 0 /\ o2 # 0 /\ o3 # 0 /\ o4 # 0 /\ o1 # o2

do_intersect(e1, e2) ==
    LET p1 == e1.p
        q1 == e1.q
        p2 == e2.p
        q2 == e2.q
        o1 == orientation(p1, q1, p2)
        o2 == orientation(p1, q1, q2)
        o3 == orientation(p2, q2, p1)
        o4 == orientation(p2, q2, q1)
    IN  IF p1.id = p2.id \/ p1.id = q2.id \/ q1.id = p2.id \/ q1.id = q2.id
        THEN FALSE
        ELSE IF o1 # 0 /\ o2 # 0 /\ o3 # 0 /\ o4 # 0 /\ o1 # o2 /\ o3 # o4
        THEN TRUE
        ELSE FALSE

(***************************************************************************)
(* Edge/crossing graph builder.                                            *)
(***************************************************************************)
\* itertools.combinations(range(1, m + 1), 2) as a sequence, in order
RECURSIVE PairsFrom(_, _)
PairsFrom(i, m) ==
    IF i >= m THEN <<>>
    ELSE [j \in 1..(m - i) |-> <<i, i + j>>] \o PairsFrom(i + 1, m)

Pairs(m) == PairsFrom(1, m)

\* the Edge objects generate_all_edges creates, in creation order
generate_all_edges_ids_from_one(pts) ==
    LET prs == Pairs(Len(pts))
    IN  [i \in 1..Len(prs) |-> Edge(i, pts[prs[i][1]], pts[prs[i][2]])]

generate_all_edges(pts) ==
    LET prs == Pairs(Len(pts))
    IN  [i \in 1..Len(prs) |-> Edge(i - 1, pts[prs[i][1]], pts[prs[i][2]])]

\* set_crossings' loop, seen from the edge at position a of the list: the
\* positions j of the edges it is paired with and found to intersect, in the
\* order in which the loop reaches the pairs.  The pair of positions a and j
\* is visited once, as (min, max).
CrossedAt_first_only(objs, refs, a) ==
    SelectSeq([j \in 1..Len(refs) |-> j],
              LAMBDA j : j > a /\ do_intersect(objs[refs[a]], objs[refs[j]]))

CrossedAt(objs, refs, a) ==
    SelectSeq([j \in 1..Len(refs) |-> j],
              LAMBDA j :
                 \/ j > a /\ do_intersect(objs[refs[a]], objs[refs[j]])
                 \/ j < a /\ do_intersect(objs[refs[j]], objs[refs[a]]))

\* set_crossings(edges): the Edge store after the call.  Every intersecting
\* pair adds one to both counters and appends each edge to the other's list.
set_crossings(objs, refs) ==
    [o \in DOMAIN objs |->
        IF \E a \in 1..Len(refs) : refs[a] = o
        THEN LET a == CHOOSE a \in 1..Len(refs) : refs[a] = o
                 hits == CrossedAt(objs, refs, a)
             IN  [objs[o] EXCEPT
                    !.num_intersections = @ + Len(hits),
                    !.crossed_edges = @ \o [i \in 1..Len(hits) |-> refs[hits[i]]]]
        ELSE objs[o]]

\* remove_uncrossed_edges' new_edges: the references it keeps, in order
RetainedEdges_all(objs, refs) == refs

RetainedEdges(objs, refs) ==
    SelectSeq(refs, LAMBDA r : Len(objs[r].crossed_edges) # 0)

\* remove_uncrossed_edges(edges): the list it returns and the Edge store
\* after the call; the edge appended at position i (from 0) got id i
remove_uncrossed_edges(objs, refs) ==
    LET new_edges == RetainedEdges(objs, refs)
    IN  [edges |-> new_edges,
         objs |-> [o \in DOMAIN objs |->
                     IF \E i \in 1..Len(new_edges) : new_edges[i] = o
                     THEN [objs[o] EXCEPT
                             !.id = (CHOOSE i \in 1..Len(new_edges) :
                                        new_edges[i] = o) - 1]
                     ELSE objs[o]]]

(***************************************************************************)
(* Cycle enumerator.                                                       *)
(***************************************************************************)
\* the concatenation of ss[lo..hi]
RECURSIVE FlattenRange(_, _, _)
FlattenRange(ss, lo, hi) ==
    IF lo > hi THEN <<>>
    ELSE IF lo = hi THEN ss[lo]
    ELSE LET mid == (lo + hi) \div 2
         IN  FlattenRange(ss, lo, mid) \o FlattenRange(ss, mid + 1, hi)

Flatten(ss) == FlattenRange(ss, 1, Len(ss))

\* itertools.combinations(range(lo, hi), l) as a sequence, in order
RECURSIVE Combinations(_, _, _)
Combinations(lo, hi, l) ==
    IF l = 0 THEN << <<>> >>
    ELSE Flatten([f \in 1..(hi - lo) |->
            LET first == lo + f - 1
                rest == Combinations(first + 1, hi, l - 1)
            IN  [i \in 1..Len(rest) |-> <<first>> \o rest[i]]])

\* the entries generate_all_cycles appends for one combination; tuples are
\* 1-indexed here, vertices[0] is v[1]
CyclesOf_repeated_order(v, l) ==
    IF l = 3 THEN <<v>>
    ELSE <<v, <<v[1], v[2], v[4], v[3]>>, <<v[1], v[3], v[4], v[2]>> >>

CyclesOf(v, l) ==
    IF l = 3 THEN <<v>>
    ELSE <<v, <<v[1], v[2], v[4], v[3]>>, <<v[1], v[4], v[2], v[3]>> >>

\* generate_all_cycles(n, lengths): an AssertionError when a length is not
\* 3 or 4, else the list res it returns
generate_all_cycles(nn, lengths) ==
    IF \E li \in 1..Len(lengths) : lengths[li] \notin {3, 4}
    THEN [raised |-> TRUE, res |-> <<>>]
    ELSE [raised |-> FALSE,
          res |-> Flatten([li \in 1..Len(lengths) |->
                    LET l == lengths[li]
                        combs == Combinations(0, nn, l)
                    IN  Flatten([ci \in 1..Len(combs) |->
                                    CyclesOf(combs[ci], l)])])]

(***************************************************************************)
(* ILP model builder (Solver_ILP._graph_to_ilp_model).                     *)
(*                                                                         *)
(* A variable x_vars[e][c] is <<e, c>>.  A constraint is                   *)
(*   [group, lhs, sense, rhs]: group is the number of the CONSTRAINT       *)
(* section that adds it, lhs the summed variables (quicksum), rhs the      *)
(* linear expression const + sum of coef * var.                            *)
(***************************************************************************)
Var(e, c) == <<e, c>>

Const(a) == [const |-> a, terms |-> <<>>]

Constr(group, lhs, sense, rhs) ==
    [group |-> group, lhs |-> lhs, sense |-> sense, rhs |-> rhs]

\* edge_tuple_to_id[(s, t)]: the id of the last edge of the list stored
\* under (p.id, q.id) or (q.id, p.id)
edge_tuple_to_id(objs, refs, s, t) ==
    LET hits == { i \in 1..Len(refs) :
                    \/ objs[refs[i]].p.id = s /\ objs[refs[i]].q.id = t
                    \/ objs[refs[i]].q.id = s /\ objs[refs[i]].p.id = t }
        last == CHOOSE i \in hits : \A j \in hits : j <= i
    IN  objs[refs[last]].id

\* CONSTRAINT 1: each edge receives exactly one color
ColorConstraints(m, kk) ==
    [e \in 1..m |->
        Constr(1, [c \in 1..kk |-> Var(e - 1, c - 1)], "=", Const(1))]

\* one constraint of the plane partition branch
PlaneConstraint_slack(e1, e2, c) ==
    Constr(2, <<Var(e1.id, c), Var(e2.id, c)>>, "<=", Const(2))

PlaneConstraint(e1, e2, c) ==
    Constr(2, <<Var(e1.id, c), Var(e2.id, c)>>, "<=", Const(1))

\* CONSTRAINT 2, plane partition: intersecting edges get different colors
PlaneConstraints(objs, refs, kk) ==
    LET prs == Pairs(Len(refs))
    IN  Flatten([i \in 1..Len(prs) |->
            LET e1 == objs[refs[prs[i][1]]]
                e2 == objs[refs[prs[i][2]]]
            IN  IF ~do_intersect(e1, e2) THEN <<>>
                ELSE [c \in 1..kk |-> PlaneConstraint(e1, e2, c - 1)]])

\* k_planar + (1 - x_vars[e.id][c]) * len(edges)
KPlanarRhs_unrelaxed(e, c, k_planar, m) ==
    [const |-> k_planar, terms |-> <<>>]

KPlanarRhs(e, c, k_planar, m) ==
    [const |-> k_planar + m, terms |-> << <<-m, Var(e.id, c)>> >>]

\* CONSTRAINT 2, k-plane partition
KPlanarConstraints(objs, refs, kk, k_planar) ==
    Flatten([c \in 1..kk |->
        [i \in 1..Len(refs) |->
            LET e == objs[refs[i]]
            IN  Constr(2,
                       [j \in 1..Len(e.crossed_edges) |->
                            Var(objs[e.crossed_edges[j]].id, c - 1)],
                       "<=",
                       KPlanarRhs(e, c - 1, k_planar, Len(refs)))]])

\* rhs of CONSTRAINT 3
N1Rhs_all_points(nn) == Const(nn)

N1Rhs(nn) == Const(nn - 1)

\* CONSTRAINT 3: each color class has exactly n-1 edges
N1Constraints(m, kk, nn) ==
    [c \in 1..kk |->
        Constr(3, [e \in 1..m |-> Var(e - 1, c - 1)], "=", N1Rhs(nn))]

\* CONSTRAINT 4: the constraints of one forbidden cycle
CycleConstraints(objs, refs, kk, cycle) ==
    LET edge_ids == [i \in 1..Len(cycle) |->
                        edge_tuple_to_id(objs, refs, cycle[i],
                                         cycle[(i % Len(cycle)) + 1])]
    IN  [color \in 1..kk |->
            Constr(4, [i \in 1..Len(edge_ids) |-> Var(edge_ids[i], color - 1)],
                   "<=", Const(Len(cycle) - 1))]

\* CONSTRAINT 5: every vertex is incident to an edge of each color
CoverConstraints(objs, refs, kk, nn) ==
    Flatten([c \in 1..kk |->
        [v \in 1..nn |->
            LET incident == SelectSeq(refs,
                    LAMBDA r : objs[r].p.id = v - 1 \/ objs[r].q.id = v - 1)
            IN  Constr(5, [i \in 1..Len(incident) |-> Var(objs[incident[i]].id, c - 1)],
                       ">=", Const(1))]])

\* whether the local name c is bound when the cycle constraints are named:
\* only a loop "for c in range(k)" that ran at least once binds it
c_is_bound(objs, refs, kk, a) ==
    \/ /\ a.k_planar <= 0
       /\ kk >= 1
       /\ \E i, j \in 1..Len(refs) : i < j /\ do_intersect(objs[refs[i]], objs[refs[j]])
    \/ /\ a.k_planar > 0
       /\ kk >= 1
    \/ /\ a.n1_constraints
       /\ kk >= 1

\* the constraints added before CONSTRAINT 4
ConstraintsBeforeCycles(objs, refs, kk, nn, a) ==
    ColorConstraints(Len(refs), kk)
    \o (IF a.k_planar <= 0
        THEN PlaneConstraints(objs, refs, kk)
        ELSE KPlanarConstraints(objs, refs, kk, a.k_planar))
    \o (IF a.n1_constraints THEN N1Constraints(Len(refs), kk, nn) ELSE <<>>)

\* _graph_to_ilp_model: the model it returns, or the AssertionError of
\* generate_all_cycles, or the UnboundLocalError raised while naming the
\* first cycle constraint when c is unbound
graph_to_ilp_model(objs, refs, kk, nn, a) ==
    LET all == generate_all_cycles(nn, a.forbidden_cycles)
        cycles == all.res
    IN  IF all.raised
        THEN [state |-> "raised", error |-> "AssertionError", constrs |-> <<>>]
        ELSE IF Len(cycles) > 0 /\ kk >= 1 /\ ~c_is_bound(objs, refs, kk, a)
        THEN [state |-> "raised", error |-> "UnboundLocalError", constrs |-> <<>>]
        ELSE [state |-> "built", error |-> "",
              constrs |->
                 ConstraintsBeforeCycles(objs, refs, kk, nn, a)
                 \o Flatten([i \in 1..Len(cycles) |->
                        CycleConstraints(objs, refs, kk, cycles[i])])
                 \o (IF a.cover_all_vertices
                     THEN CoverConstraints(objs, refs, kk, nn)
                     ELSE <<>>)]

(***************************************************************************)
(* Solving engine (external): 0/1 assignments and their satisfaction.      *)
(***************************************************************************)
RECURSIVE SumVars(_, _, _)
SumVars(xx, lhs, i) ==
    IF i > Len(lhs) THEN 0
    ELSE xx[lhs[i][1]][lhs[i][2]] + SumVars(xx, lhs, i + 1)

RECURSIVE SumTerms(_, _, _)
SumTerms(xx, terms, i) ==
    IF i > Len(terms) THEN 0
    ELSE terms[i][1] * xx[terms[i][2][1]][terms[i][2][2]] + SumTerms(xx, terms, i + 1)

EvalRhs(xx, rhs) == rhs.const + SumTerms(xx, rhs.terms, 1)

Holds(xx, con) ==
    LET l == SumVars(xx, con.lhs, 1)
        r == EvalRhs(xx, con.rhs)
    IN  CASE con.sense = "=" -> l = r
          [] con.sense = "<=" -> l <= r
          [] con.sense = ">=" -> l >= r

Sat(xx, constrs) == \A i \in 1..Len(constrs) : Holds(xx, constrs[i])

\* the 0/1 assignment in which every edge e has the one color col[e]
XOf(col, m, kk) ==
    [e \in 0..(m - 1) |-> [c \in 0..(kk - 1) |-> IF col[e] = c THEN 1 ELSE 0]]

\* the satisfying assignments: CONSTRAINT 1 admits only assignments XOf(col)
Solutions(constrs, m, kk) ==
    { xx \in { XOf(col, m, kk) : col \in [0..(m - 1) -> 0..(kk - 1)] } :
        Sat(xx, constrs) }

(***************************************************************************)
(* Result assignment and verification (SolverBase).                        *)
(***************************************************************************)
\* _ilp_model_to_edge_color_assignment: edges[v].color = c for every
\* variable with X == 1, in the order of x_vars
ilp_model_to_edge_color_assignment(objs, refs, xx, kk) ==
    [o \in DOMAIN objs |->
        LET ones == { <<v, c>> \in (1..Len(refs)) \X (0..(kk - 1)) :
                         refs[v] = o /\ xx[v - 1][c] = 1 }
        IN  IF ones = {} THEN objs[o]
            ELSE LET last == CHOOSE vc \in ones :
                                \A wd \in ones :
                                   wd[1] < vc[1] \/ (wd[1] = vc[1] /\ wd[2] <= vc[2])
                 IN  [objs[o] EXCEPT !.color = last[2]]]

\* the nx.Graph convert_edge_colors_to_nx builds for color c
ColorClassGraph(pts, objs, refs, c) ==
    [nodes |-> { pts[i].id : i \in 1..Len(pts) },
     edges |-> { {objs[refs[i]].p.id, objs[refs[i]].q.id} :
                   i \in { i \in 1..Len(refs) : objs[refs[i]].color = c } }]

\* convert_edge_colors_to_nx: the assertion that every edge has a color,
\* then the graphs of the colors 0..k-1
convert_edge_colors_to_nx(pts, objs, refs, kk) ==
    IF \E i \in 1..Len(refs) : objs[refs[i]].color = None
    THEN [raised |-> TRUE, res |-> <<>>]
    ELSE [raised |-> FALSE,
          res |-> [c \in 1..kk |-> ColorClassGraph(pts, objs, refs, c - 1)]]

\* the nodes reached from the nodes of seen in at most steps edges
RECURSIVE Bfs(_, _, _)
Bfs(G, seen, steps) ==
    LET next == seen \cup { v \in G.nodes : \E u \in seen : {u, v} \in G.edges }
    IN  IF steps = 0 \/ next = seen THEN seen ELSE Bfs(G, next, steps - 1)

\* nx.is_connected(G) of a graph with at least one node: a search from an
\* arbitrary node reaches every node
is_connected(G) ==
    LET source == CHOOSE v \in G.nodes : TRUE
    IN  Bfs(G, {source}, Cardinality(G.nodes)) = G.nodes

is_pst_edge_count_only(G) ==
    Cardinality(G.edges) = Cardinality(G.nodes) - 1

is_pst(G) ==
    IF Cardinality(G.edges) # Cardinality(G.nodes) - 1 THEN FALSE
    ELSE IF ~is_connected(G) THEN FALSE
    ELSE TRUE

is_pst_partition(classes) ==
    IF Len(classes) = 0 THEN FALSE
    ELSE \A i \in 1..Len(classes) : is_pst(classes[i])

(***************************************************************************)
(* Point sets.                                                             *)
(***************************************************************************)
\* round(Scale * (cos, sin)(2 pi i / n)), i = 0..n-1
CosSin ==
    1 :> << <<1000, 0>> >> @@
    2 :> << <<1000, 0>>, <<-1000, 0>> >> @@
    3 :> << <<1000, 0>>, <<-500, 866>>, <<-500, -866>> >> @@
    4 :> << <<1000, 0>>, <<0, 1000>>, <<-1000, 0>>, <<0, -1000>> >> @@
    5 :> << <<1000, 0>>, <<309, 951>>, <<-809, 588>>, <<-809, -588>>,
            <<309, -951>> >> @@
    6 :> << <<1000, 0>>, <<500, 866>>, <<-500, 866>>, <<-1000, 0>>,
            <<-500, -866>>, <<500, -866>> >> @@
    7 :> << <<1000, 0>>, <<623, 782>>, <<-223, 975>>, <<-901, 434>>,
            <<-901, -434>>, <<-223, -975>>, <<623, -782>> >> @@
    8 :> << <<1000, 0>>, <<707, 707>>, <<0, 1000>>, <<-707, 707>>,
            <<-1000, 0>>, <<-707, -707>>, <<0, -1000>>, <<707, -707>> >>

\* the points of convex_position(n)
convex_points(nn) ==
    [i \in 1..nn |-> Point(i - 1, CosSin[nn][i][1], CosSin[nn][i][2])]

\* point lists with ids 0..nn-1 and arbitrary integer coordinates
GridPointLists(nn, gx, gy) ==
    { [i \in 1..nn |-> Point(i - 1, c[i][1], c[i][2])] :
        c \in [1..nn -> (0..gx) \X (0..gy)] }

\* prepare_all_edges(points), remove_uncrossed left False: the Edge store
\* and the edge list it returns
prepare_all_edges(pts) ==
    LET objs == generate_all_edges(pts)
        refs == [i \in 1..Len(objs) |-> i]
    IN  [objs |-> set_crossings(objs, refs), edges |-> refs]

\* the condition of the rejection loops: len(points) == 0 or not
\* in_general_position(points)
LoopCondition(pts) == Len(pts) = 0 \/ ~in_general_position(pts)

\* the size random_position draws coordinates up to
SizeOf(nn, size) == IF size = None THEN SizeFactor * nn ELSE size

\* the point lists one pass of random_position's loop body can build:
\* n points with ids 0..n-1 and both coordinates randint(0, size)
RandomCandidates(nn, size) ==
    GridPointLists(nn, SizeOf(nn, size), SizeOf(nn, size))

\* the angles alpha are drawn from the first NumDirs of the directions
\* 2 pi (4 j mod 9) / 9, j = 0..8: round(Scale * (cos, sin)(alpha))
UnitDirs ==
    << <<1000, 0>>, <<-940, 342>>, <<766, -643>>, <<-500, 866>>, <<174, -985>>,
       <<174, 985>>, <<-500, -866>>, <<766, 643>>, <<-940, -342>> >>

Dirs == [j \in 1..NumDirs |-> UnitDirs[j]]

\* the points one pass of two_convex_layers' loop body builds from the
\* angles alphas: n // 2 on the unit circle, then n // 2 on the outer circle
TwoLayerPoints(nn, alphas) ==
    [i \in 1..(2 * (nn \div 2)) |->
        IF i <= nn \div 2
        THEN Point(i - 1, Dirs[alphas[i]][1], Dirs[alphas[i]][2])
        ELSE Point((i - (nn \div 2) - 1) + (nn \div 2),
                   OuterRadius * Dirs[alphas[i]][1],
                   OuterRadius * Dirs[alphas[i]][2])]

TwoLayerCandidates(nn) ==
    { TwoLayerPoints(nn, alphas) :
        alphas \in [1..(2 * (nn \div 2)) -> 1..NumDirs] }

\* the point lists one pass of the generator's loop body can build
Candidates(a) ==
    IF a.pset = "random" THEN RandomCandidates(a.n, a.size)
    ELSE TwoLayerCandidates(a.n)

\* round(Scale * (cos, sin)(2 pi / k * i + j * 0.1 - pi / 2.55)), as
\* BumpyDirs[k][i + 1][j + 1]
BumpyDirs ==
    1 :> << << <<332, -943>>, <<425, -905>>, <<513, -858>>, <<596, -803>>, <<673, -739>> >> >> @@
    2 :> << << <<332, -943>>, <<425, -905>>, <<513, -858>>, <<596, -803>>, <<673, -739>> >>,
            << <<-332, 943>>, <<-425, 905>>, <<-513, 858>>, <<-596, 803>>, <<-673, 739>> >> >> @@
    3 :> << << <<332, -943>>, <<425, -905>>, <<513, -858>>, <<596, -803>>, <<673, -739>> >>,
            << <<651, 759>>, <<572, 821>>, <<487, 874>>, <<397, 918>>, <<304, 953>> >>,
            << <<-983, 184>>, <<-996, 85>>, <<-1000, -15>>, <<-993, -115>>, <<-977, -214>> >> >> @@
    4 :> << << <<332, -943>>, <<425, -905>>, <<513, -858>>, <<596, -803>>, <<673, -739>> >>,
            << <<943, 332>>, <<905, 425>>, <<858, 513>>, <<803, 596>>, <<739, 673>> >>,
            << <<-332, 943>>, <<-425, 905>>, <<-513, 858>>, <<-596, 803>>, <<-673, 739>> >>,
            << <<-943, -332>>, <<-905, -425>>, <<-858, -513>>, <<-803, -596>>, <<-739, -673>> >> >> @@
    5 :> << << <<332, -943>>, <<425, -905>>, <<513, -858>>, <<596, -803>>, <<673, -739>> >>,
            << <<1000, 25>>, <<992, 124>>, <<975, 223>>, <<948, 319>>, <<911, 412>> >>,
            << <<285, 958>>, <<188, 982>>, <<89, 996>>, <<-10, 1000>>, <<-110, 994>> >>,
            << <<-823, 568>>, <<-876, 483>>, <<-920, 393>>, <<-954, 299>>, <<-979, 202>> >>,
            << <<-794, -608>>, <<-730, -684>>, <<-658, -753>>, <<-579, -815>>, <<-495, -869>> >> >>

\* the points of bumpy_wheel(k, l): the origin, then the l points of each of
\* the k groups, every point with id len(points)
bumpy_wheel_points(kk, l) ==
    <<Point(0, 0, 0)>> \o
    [t \in 1..(kk * l) |->
        LET dir == BumpyDirs[kk][((t - 1) \div l) + 1][((t - 1) % l) + 1]
        IN  Point(t, dir[1], dir[2])]

\* round(Scale * (cos, sin)(2 pi / k * i + j * 0.1)), as
\* WheelDirs[k][i + 1][j + 1]
WheelDirs ==
    1 :> << << <<1000, 0>>, <<995, 100>>, <<980, 199>> >> >> @@
    2 :> << << <<1000, 0>>, <<995, 100>>, <<980, 199>> >>,
            << <<-1000, 0>>, <<-995, -100>>, <<-980, -199>> >> >> @@
    3 :> << << <<1000, 0>>, <<995, 100>>, <<980, 199>> >>,
            << <<-500, 866>>, <<-584, 812>>, <<-662, 749>> >>,
            << <<-500, -866>>, <<-411, -912>>, <<-318, -948>> >> >> @@
    4 :> << << <<1000, 0>>, <<995, 100>>, <<980, 199>> >>,
            << <<0, 1000>>, <<-100, 995>>, <<-199, 980>> >>,
            << <<-1000, 0>>, <<-995, -100>>, <<-980, -199>> >>,
            << <<0, -1000>>, <<100, -995>>, <<199, -980>> >> >>

\* the points of generalized_wheel(sizes): the origin, then the sizes[i]
\* points of every group i of the k = len(sizes) groups
generalized_wheel_points(sizes) ==
    LET kk == Len(sizes)
        dirs == Flatten([i \in 1..kk |->
                            [j \in 1..sizes[i] |-> WheelDirs[kk][i][j]]])
    IN  <<Point(0, 0, 0)>> \o
        [t \in 1..Len(dirs) |-> Point(t, dirs[t][1], dirs[t][2])]

\* point p lies on the segment from a to b
OnSegment(a, b, p) ==
    /\ (b[1] - a[1]) * (p[2] - a[2]) = (b[2] - a[2]) * (p[1] - a[1])
    /\ (a[1] <= p[1] /\ p[1] <= b[1]) \/ (b[1] <= p[1] /\ p[1] <= a[1])
    /\ (a[2] <= p[2] /\ p[2] <= b[2]) \/ (b[2] <= p[2] /\ p[2] <= a[2])

\* the ray from p to the right crosses the segment from a to b
CrossesRay(a, b, p) ==
    LET det == (b[1] - a[1]) * (p[2] - a[2]) - (b[2] - a[2]) * (p[1] - a[1])
    IN  \/ a[2] > p[2] /\ b[2] <= p[2] /\ det < 0
        \/ b[2] > p[2] /\ a[2] <= p[2] /\ det > 0

\* shapely's Polygon(verts).contains(p): p is in the interior of the polygon
\* whose ring runs through verts and back to verts[0], that is, p is on no
\* segment of the ring and the ray from p crosses the ring an odd number of
\* times
PolygonContains(verts, p) ==
    LET m == Len(verts)
        succ(i) == verts[(i % m) + 1]
    IN  /\ \A i \in 1..m : ~OnSegment(verts[i], succ(i), p)
        /\ Cardinality({ i \in 1..m : CrossesRay(verts[i], succ(i), p) }) % 2 = 1

\* get_random_point_in_polygon draws its point from the points with
\* coordinates that are multiples of 1 / WheelGrid
WheelLattice ==
    { <<(Scale \div WheelGrid) * i, (Scale \div WheelGrid) * j>> :
        i, j \in (-WheelGrid)..WheelGrid }

\* the point lists one pass of random_wheel's loop body can build from a
\* polygon of n - 1 >= 3 points: the points of the polygon, at the angles
\* alphas, and a point the polygon contains
RandomWheelCandidates(nn) ==
    { [i \in 1..nn |->
          IF i < nn
          THEN Point(i - 1, Dirs[aq[1][i]][1], Dirs[aq[1][i]][2])
          ELSE Point(nn - 1, aq[2][1], aq[2][2])] :
        aq \in { aq \in [1..(nn - 1) -> 1..NumDirs] \X WheelLattice :
                   PolygonContains([i \in 1..(nn - 1) |-> Dirs[aq[1][i]]], aq[2]) } }

NoArgs == [pset |-> "none"]
NoProbe == [e1 |-> 0, e2 |-> 0, res |-> FALSE]
NoModel == [state |-> "none", error |-> "", constrs |-> <<>>]
NoPst == [called |-> FALSE, value |-> FALSE]

SolverIdle ==
    /\ n = 0
    /\ k = 0
    /\ model = NoModel
    /\ all_cycles = <<>>
    /\ status = "none"
    /\ X = <<>>
    /\ colorclasses_nx = <<>>
    /\ pst_result = NoPst
    /\ error = ""

SolverUnchanged ==
    UNCHANGED <<n, k, model, all_cycles, status, X, colorclasses_nx, pst_result,
                error>>

(***************************************************************************)
(* Single calls of do_intersect on two edges of a four-point set.         *)
(***************************************************************************)
InitGeom ==
    /\ pc = "edges"
    /\ args = NoArgs
    /\ points \in GridPointLists(2 + 2, Grid, Grid)
    /\ edge_objs = generate_all_edges(points)
    /\ edges = [i \in 1..Len(edge_objs) |-> i]
    /\ calls = 0
    /\ probe = NoProbe
    /\ SolverIdle

CallDoIntersect ==
    /\ pc = "edges"
    /\ \E i, j \in 1..Len(edges) :
          /\ i <= j
          /\ probe' = [e1 |-> edges[i], e2 |-> edges[j],
                       res |-> do_intersect(edge_objs[edges[i]], edge_objs[edges[j]])]
    /\ pc' = "probed"
    /\ UNCHANGED <<args, points, edge_objs, edges, calls>>
    /\ SolverUnchanged

NextGeom == CallDoIntersect

SpecGeom == InitGeom /\ [][NextGeom]_vars

(***************************************************************************)
(* generate_all_edges and set_crossings on a point set.                    *)
(***************************************************************************)
InitCross ==
    /\ pc = "points"
    /\ \/ \E nn \in 1..MaxN :
             /\ args = [pset |-> "convex", n |-> nn]
             /\ points = convex_points(nn)
       \/ \E nn \in 1..MaxPts :
             /\ args = [pset |-> "any", n |-> nn]
             /\ points \in GridPointLists(nn, SetGrid, SetGrid)
    /\ edge_objs = <<>>
    /\ edges = <<>>
    /\ calls = 0
    /\ probe = NoProbe
    /\ SolverIdle

GenerateAllEdges ==
    /\ pc = "points"
    /\ edge_objs' = generate_all_edges(points)
    /\ edges' = [i \in 1..Len(edge_objs') |-> i]
    /\ pc' = "edges"
    /\ UNCHANGED <<args, points, calls, probe>>
    /\ SolverUnchanged

SetCrossings ==
    /\ pc = "edges"
    /\ calls < MaxCalls
    /\ edge_objs' = set_crossings(edge_objs, edges)
    /\ calls' = calls + 1
    /\ UNCHANGED <<pc, args, points, edges, probe>>
    /\ SolverUnchanged

\* prepare_all_edges with remove_uncrossed: the pruning follows set_crossings
RemoveUncrossedEdges ==
    /\ pc = "edges"
    /\ calls >= 1
    /\ LET res == remove_uncrossed_edges(edge_objs, edges)
       IN  /\ edges' = res.edges
           /\ edge_objs' = res.objs
    /\ pc' = "pruned"
    /\ UNCHANGED <<args, points, calls, probe>>
    /\ SolverUnchanged

NextCross == GenerateAllEdges \/ SetCrossings \/ RemoveUncrossedEdges

SpecCross == InitCross /\ [][NextCross]_vars

(***************************************************************************)
(* The randomized generators random_position and two_convex_layers.        *)
(***************************************************************************)
RECURSIVE Pow(_, _)
Pow(b, e) == IF e = 0 THEN 1 ELSE b * Pow(b, e - 1)

\* b^e, or some number above cap when b^e is above cap
RECURSIVE PowUpTo(_, _, _)
PowUpTo(b, e, cap) ==
    IF e = 0 THEN 1
    ELSE LET h == PowUpTo(b, e \div 2, cap)
         IN  IF h > cap THEN h
             ELSE IF h * h > cap \/ e % 2 = 0 THEN h * h
             ELSE b * h * h

\* the number of outcomes of the random draws of one pass of the loop body
NumDraws(a) ==
    IF a.pset = "random"
    THEN PowUpTo(SizeOf(a.n, a.size) + 1, 2 * a.n, MaxCandidates)
    ELSE PowUpTo(NumDirs, 2 * (a.n \div 2), MaxCandidates)

GenArgs ==
    { a \in [pset : {"random"}, n : 1..MaxGenN,
              size : {None} \cup 0..MaxGenSize]
           \cup [pset : {"two_convex_layers"}, n : 1..MaxGenN, size : {None}] :
        NumDraws(a) <= MaxCandidates }

AllCandidates == UNION { Candidates(a) : a \in GenArgs }

InitGen ==
    /\ pc = "while"
    /\ args \in GenArgs
    /\ points = <<>>
    /\ edge_objs = <<>>
    /\ edges = <<>>
    /\ calls = 0
    /\ probe = NoProbe
    /\ SolverIdle

\* the loop condition holds: enter the body, points = []
EnterLoopBody ==
    /\ pc = "while"
    /\ LoopCondition(points)
    /\ points' = <<>>
    /\ pc' = "body"
    /\ UNCHANGED <<args, edge_objs, edges, calls, probe>>
    /\ SolverUnchanged

\* the for loops of the body have built the point list cfg
LoopBody(cfg) ==
    /\ pc = "body"
    /\ cfg \in Candidates(args)
    /\ points' = cfg
    /\ pc' = "while"
    /\ UNCHANGED <<args, edge_objs, edges, calls, probe>>
    /\ SolverUnchanged

\* the loop condition fails: prepare_all_edges and return
GeneratorReturn ==
    /\ pc = "while"
    /\ ~LoopCondition(points)
    /\ LET res == prepare_all_edges(points)
       IN  /\ edge_objs' = res.objs
           /\ edges' = res.edges
    /\ calls' = 1
    /\ pc' = "returned"
    /\ UNCHANGED <<args, points, probe>>
    /\ SolverUnchanged

NextGen ==
    \/ EnterLoopBody
    \/ \E cfg \in AllCandidates : LoopBody(cfg)
    \/ GeneratorReturn

SpecGen == InitGen /\ [][NextGen]_vars

\* a pass of the body that builds a point list passing the loop condition
AcceptedDraw ==
    \E cfg \in AllCandidates : ~LoopCondition(cfg) /\ LoopBody(cfg)

\* a pass of the body that builds a point list failing the loop condition
RejectedDraw ==
    \E cfg \in AllCandidates : LoopCondition(cfg) /\ LoopBody(cfg)

\* fair random sampling: every point list the body can build is built
\* eventually when the body runs again and again; so a pass that builds an
\* accepted list happens if one exists, and so does one that builds a
\* rejected list
FairSampling == SF_vars(AcceptedDraw) /\ SF_vars(RejectedDraw)

SpecGenFair ==
    /\ SpecGen
    /\ WF_vars(EnterLoopBody)
    /\ WF_vars(GeneratorReturn)
    /\ FairSampling

(***************************************************************************)
(* A run of main: Solver_ILP(args) and compute_solution().                 *)
(***************************************************************************)
\* SolverBase.k for nn points
ColorsOf(a, nn) == IF a.n_colors < 0 THEN nn \div 2 ELSE a.n_colors

\* the names of the point sets get_input knows
PointSets ==
    {"bw", "gw", "convex", "random", "random_wheel", "two_convex_layers"}

\* get_input's assertions: the name of the point set, then the arguments of
\* the point set
InputAccepted(a) ==
    /\ a.pset \in PointSets
    /\ CASE a.pset = "bw" -> a.k > 0 /\ a.l > 0
         [] a.pset = "gw" -> Len(a.group_sizes) > 0
         [] OTHER -> a.n > 0

\* random_wheel's Polygon(...) of fewer than three points raises ValueError;
\* of no point it is the empty polygon, on whose bounds
\* get_random_point_in_polygon raises ValueError or, in the shapely versions
\* that return NaN bounds, loops forever
PolygonRaises(a) == a.pset = "random_wheel" /\ a.n - 1 < 3

\* the point lists one pass of the loop body of the randomized generator
\* get_input calls can build; random_position is called with its default
\* size, and its coordinates are drawn from 0..RunGrid
RunCandidates(a) ==
    CASE a.pset = "random" ->
            LET g == IF RunGrid < SizeOf(a.n, None) THEN RunGrid
                     ELSE SizeOf(a.n, None)
            IN  GridPointLists(a.n, g, g)
      [] a.pset = "random_wheel" -> RandomWheelCandidates(a.n)
      [] a.pset = "two_convex_layers" -> TwoLayerCandidates(a.n)
      [] OTHER -> {}

\* the number of outcomes of the random draws of one pass of that loop body
RunDraws(a) ==
    CASE a.pset = "random" -> PowUpTo(RunGrid + 1, 2 * a.n, MaxRunDraws)
      [] a.pset = "random_wheel" ->
            PowUpTo(NumDirs, a.n - 1, MaxRunDraws) *
               (2 * WheelGrid + 1) * (2 * WheelGrid + 1)
      [] a.pset = "two_convex_layers" ->
            PowUpTo(NumDirs, 2 * (a.n \div 2), MaxRunDraws)
      [] OTHER -> 1

\* the point lists get_input(a) can return; a randomized generator returns
\* the first list it builds that fails its loop condition
get_input_points(a) ==
    CASE a.pset = "bw" -> { bumpy_wheel_points(a.k, a.l) }
      [] a.pset = "gw" -> { generalized_wheel_points(a.group_sizes) }
      [] a.pset = "convex" -> { convex_points(a.n) }
      [] a.pset \in {"random", "random_wheel", "two_convex_layers"} ->
            { cfg \in RunCandidates(a) : ~LoopCondition(cfg) }
      [] OTHER -> {}

\* the options of a run
AllOptions ==
    [n_colors : (-1)..MaxColors,
     n1_constraints : BOOLEAN,
     forbidden_cycles : {<<>>, <<3>>, <<4>>, <<3, 4>>},
     cover_all_vertices : BOOLEAN,
     k_planar : (-1)..MaxKPlanar,
     timelimit : {None, 1}]

\* parse_input's defaults
DefaultOptions ==
    [n_colors |-> -1, n1_constraints |-> TRUE, forbidden_cycles |-> <<>>,
     cover_all_vertices |-> FALSE, k_planar |-> -1, timelimit |-> None]

\* the options parse_input derives from --partition_pst
PartitionPst ==
    [DefaultOptions EXCEPT !.forbidden_cycles = <<3, 4>>,
                           !.cover_all_vertices = TRUE]

\* the options parse_input derives from --partition_subgraphs
PartitionSubgraphs == [DefaultOptions EXCEPT !.n1_constraints = FALSE]

MasterOptions == {DefaultOptions, PartitionPst, PartitionSubgraphs}

\* the namespace parse_input returns
Args(pset, nn, kk, l, sizes, o) ==
    [pset |-> pset, n |-> nn, k |-> kk, l |-> l, group_sizes |-> sizes,
     n_colors |-> o.n_colors, n1_constraints |-> o.n1_constraints,
     forbidden_cycles |-> o.forbidden_cycles,
     cover_all_vertices |-> o.cover_all_vertices,
     k_planar |-> o.k_planar, timelimit |-> o.timelimit]

\* values of --pset that name no point set (parse_input takes any string)
OtherNames == {"star", "Convex", ""}

\* the --group_sizes of the runs
GroupSizes ==
    UNION { [1..len -> 0..MaxGroupSize] : len \in 0..MaxGroups }

\* the command lines of the runs: --n, --k, --l and --group_sizes are at
\* parse_input's defaults -1, 3, 3 and [] where the point set does not read
\* them; every length in forbidden_cycles has passed parse_input's
\* assertion that it is 3 or 4
RunArgs ==
    { Args("convex", nn, 3, 3, <<>>, o) : nn \in 1..MaxN, o \in AllOptions }
    \cup { Args("convex", nn, 3, 3, <<>>, o) : nn \in {-1, 0}, o \in MasterOptions }
    \cup { Args("bw", -1, kl[1], kl[2], <<>>, o) :
             kl \in (0..MaxBumps) \X (0..MaxBumps), o \in MasterOptions }
    \cup { Args("gw", -1, 3, 3, sizes, o) :
             sizes \in GroupSizes, o \in MasterOptions }
    \cup { Args(ps, nn, 3, 3, <<>>, o) :
             ps \in {"random", "random_wheel", "two_convex_layers"},
             nn \in (-1)..MaxGenN, o \in MasterOptions }
    \cup { Args(ps, nn, 3, 3, <<>>, o) :
             ps \in OtherNames, nn \in {-1, 3}, o \in MasterOptions }

\* the random draws of the run's generator are within the bound
WithinDraws(a) == InputAccepted(a) => RunDraws(a) <= MaxRunDraws

\* the k^|edges| colorings the solving engine searches are within the bound
WithinSearch == PowUpTo(k, Len(edges), MaxSearch) <= MaxSearch

Init ==
    /\ pc = "start"
    /\ args \in RunArgs
    /\ WithinDraws(args)
    /\ points = <<>>
    /\ edge_objs = <<>>
    /\ edges = <<>>
    /\ calls = 0
    /\ probe = NoProbe
    /\ SolverIdle

\* SolverBase.__init__: get_input (its assertion, the points, then
\* prepare_all_edges), the general position assertion, n and k
SolverInit ==
    /\ pc = "start"
    /\ \/ /\ ~InputAccepted(args)
          /\ pc' = "init_raised"
          /\ error' = "AssertionError"
          /\ UNCHANGED <<points, edge_objs, edges, calls, n, k>>
       \/ /\ InputAccepted(args)
          /\ PolygonRaises(args)
          /\ pc' = "init_raised"
          /\ error' = "ValueError"
          /\ UNCHANGED <<points, edge_objs, edges, calls, n, k>>
       \/ /\ InputAccepted(args)
          /\ ~PolygonRaises(args)
          /\ \E pts \in get_input_points(args) :
                LET res == prepare_all_edges(pts)
                IN  /\ points' = pts
                    /\ edge_objs' = res.objs
                    /\ edges' = res.edges
                    /\ calls' = 1
                    /\ IF in_general_position(pts)
                       THEN /\ n' = Len(pts)
                            /\ k' = ColorsOf(args, Len(pts))
                            /\ pc' = "ready"
                            /\ error' = error
                       ELSE /\ pc' = "init_raised"
                            /\ error' = "AssertionError"
                            /\ UNCHANGED <<n, k>>
    /\ UNCHANGED <<args, probe, model, all_cycles, status, X, colorclasses_nx, pst_result>>

\* compute_solution, up to the call of the solving engine
GraphToIlpModel ==
    /\ pc = "ready"
    /\ WithinSearch
    /\ model' = graph_to_ilp_model(edge_objs, edges, k, n, args)
    /\ all_cycles' = generate_all_cycles(n, args.forbidden_cycles).res
    /\ pc' = IF model'.state = "built" THEN "built" ELSE "raised"
    /\ error' = model'.error
    /\ UNCHANGED <<args, points, edge_objs, edges, calls, probe, n, k,
                   status, X, colorclasses_nx, pst_result>>

\* model.optimize(): an optimal assignment, proven infeasibility, or the
\* time limit hit; the X the engine reports for a binary variable is taken to
\* be exactly 0 or 1
Optimize ==
    /\ pc = "built"
    /\ LET sols == Solutions(model.constrs, Len(edges), k)
       IN  \/ \E xx \in sols :
                /\ status' = "OPTIMAL"
                /\ X' = xx
           \/ /\ sols = {}
              /\ status' = "INFEASIBLE"
              /\ X' = X
           \/ /\ args.timelimit # None
              /\ status' = "UNKNOWN"
              /\ X' = X
    /\ pc' = "solved"
    /\ UNCHANGED <<args, points, edge_objs, edges, calls, probe, n, k, model,
                   all_cycles, colorclasses_nx, pst_result, error>>

\* compute_solution after a status other than OPTIMAL: save_no_sol_found,
\* whose save_overview calls is_pst_partition
NoSolution ==
    /\ pc = "solved"
    /\ status # "OPTIMAL"
    /\ \E save_data_overview \in BOOLEAN :
          pst_result' = IF save_data_overview
                        THEN [called |-> TRUE, value |-> is_pst_partition(colorclasses_nx)]
                        ELSE pst_result
    /\ pc' = "done"
    /\ UNCHANGED <<args, points, edge_objs, edges, calls, probe, n, k, model,
                   all_cycles, status, X, colorclasses_nx, error>>

AssignColors ==
    /\ pc = "solved"
    /\ status = "OPTIMAL"
    /\ edge_objs' = ilp_model_to_edge_color_assignment(edge_objs, edges, X, k)
    /\ pc' = "colored"
    /\ UNCHANGED <<args, points, edges, calls, probe, n, k, model,
                   all_cycles, status, X, colorclasses_nx, pst_result, error>>

ConvertEdgeColorsToNx ==
    /\ pc = "colored"
    /\ LET classes == convert_edge_colors_to_nx(points, edge_objs, edges, k)
       IN  IF classes.raised
           THEN /\ colorclasses_nx' = colorclasses_nx
                /\ pc' = "convert_raised"
                /\ error' = "AssertionError"
           ELSE /\ colorclasses_nx' = colorclasses_nx \o classes.res
                /\ pc' = "converted"
                /\ error' = error
    /\ UNCHANGED <<args, points, edge_objs, edges, calls, probe, n, k, model,
                   all_cycles, status, X, pst_result>>

\* the rest of compute_solution: save_overview calls is_pst_partition, then
\* plot_and_save_fig asserts that there is a color class, then the final
\* check calls is_pst_partition
CheckPst ==
    /\ pc = "converted"
    /\ \E save_data, save_data_overview, plot, check_pst \in BOOLEAN :
          LET result == [called |-> TRUE,
                         value |-> is_pst_partition(colorclasses_nx)]
          IN  IF (plot \/ save_data) /\ ~(Len(colorclasses_nx) > 0)
              THEN /\ pst_result' = IF save_data_overview THEN result
                                    ELSE pst_result
                   /\ pc' = "plot_raised"
                   /\ error' = "AssertionError"
              ELSE /\ pst_result' = IF save_data_overview \/ check_pst
                                    THEN result ELSE pst_result
                   /\ pc' = "done"
                   /\ error' = error
    /\ UNCHANGED <<args, points, edge_objs, edges, calls, probe, n, k, model,
                   all_cycles, status, X, colorclasses_nx>>

Next ==
    \/ SolverInit
    \/ GraphToIlpModel
    \/ Optimize
    \/ NoSolution
    \/ AssignColors
    \/ ConvertEdgeColorsToNx
    \/ CheckPst

Spec == Init /\ [][Next]_vars

(***************************************************************************)
(* Claims about the geometry kernel and the crossing graph builder.        *)
(***************************************************************************)
InList(x, seq) == \E i \in 1..Len(seq) : seq[i] = x

\* the Edge object at position i of the edge list
EdgeAt(i) == edge_objs[edges[i]]

SharesEndpoint(e1, e2) ==
    {e1.p.id, e1.q.id} \cap {e2.p.id, e2.q.id} # {}

\* C1: do_intersect always returns a boolean; it returns false whenever the
\* two edges share an endpoint id, and otherwise true exactly when the four
\* orientations o1..o4 are all non-collinear with o1 # o2 and o3 # o4; every
\* input with a collinear triple (touching, overlapping, collinear segments)
\* yields false.
C1_DoIntersectContract ==
    pc = "probed" =>
        LET e1 == edge_objs[probe.e1]
            e2 == edge_objs[probe.e2]
            o1 == orientation(e1.p, e1.q, e2.p)
            o2 == orientation(e1.p, e1.q, e2.q)
            o3 == orientation(e2.p, e2.q, e1.p)
            o4 == orientation(e2.p, e2.q, e1.q)
            degenerate == COLLINEAR \in {o1, o2, o3, o4}
        IN  /\ probe.res \in BOOLEAN
            /\ SharesEndpoint(e1, e2) => probe.res = FALSE
            /\ ~SharesEndpoint(e1, e2) =>
                  (probe.res <=> (~degenerate /\ o1 # o2 /\ o3 # o4))
            /\ degenerate => probe.res = FALSE

\* C1 witness: a call on two edges without a common endpoint that returned
\* true.
C1_Witness ==
    /\ pc = "probed"
    /\ ~SharesEndpoint(edge_objs[probe.e1], edge_objs[probe.e2])
    /\ probe.res = TRUE

Alternate(a, b, c, d) == (a < c /\ c < b /\ b < d) \/ (c < a /\ a < d /\ d < b)

\* the set of {e.id, f.id} of the recorded crossings
RecordedCrossings ==
    { {edge_objs[edges[i]].id, edge_objs[r].id} :
        <<i, r>> \in { <<i, r>> \in (1..Len(edges)) \X (1..Len(edge_objs)) :
                          InList(r, edge_objs[edges[i]].crossed_edges) } }

\* C2: for convex_position(n), after generate_all_edges and one
\* set_crossings, edge {c,d} is recorded as crossing edge {a,b} exactly when
\* the two share no endpoint and their endpoints alternate around the hull;
\* for n = 4 there are 6 edges and the only crossing pair is 0-2 with 1-3
\* (edge ids 1 and 4).
C2_ConvexCrossings ==
    (args.pset = "convex" /\ pc = "edges" /\ calls = 1) =>
        /\ \A i, j \in 1..Len(edges) :
              LET e == edge_objs[edges[i]]
                  f == edge_objs[edges[j]]
              IN  /\ e.p.id < e.q.id
                  /\ InList(edges[j], e.crossed_edges) <=>
                        (/\ ~SharesEndpoint(e, f)
                         /\ Alternate(e.p.id, e.q.id, f.p.id, f.q.id))
        /\ args.n = 4 => (Len(edges) = 6 /\ RecordedCrossings = {{1, 4}})

\* C2 witness: the four-point convex set with the diagonal 0-2 recorded as
\* crossed by the diagonal 1-3.
C2_Witness ==
    /\ args.pset = "convex" /\ pc = "edges" /\ calls = 1 /\ args.n = 4
    /\ \E i, j \in 1..Len(edges) :
          /\ edge_objs[edges[i]].p.id = 0 /\ edge_objs[edges[i]].q.id = 2
          /\ edge_objs[edges[j]].p.id = 1 /\ edge_objs[edges[j]].q.id = 3
          /\ InList(edges[j], edge_objs[edges[i]].crossed_edges)

\* C3: after generate_all_edges and one set_crossings on any point set the
\* crossing relation is symmetric, num_intersections is the length of
\* crossed_edges, and no edge lists an edge twice or lists itself.
C3_SymmetricCounted ==
    (pc = "edges" /\ calls = 1) =>
        /\ \A i, j \in 1..Len(edges) :
              i # j =>
                 (InList(edges[j], edge_objs[edges[i]].crossed_edges) <=>
                  InList(edges[i], edge_objs[edges[j]].crossed_edges))
        /\ \A i \in 1..Len(edges) :
              LET e == edge_objs[edges[i]]
              IN  /\ e.num_intersections = Len(e.crossed_edges)
                  /\ \A x, y \in 1..Len(e.crossed_edges) :
                        x # y => e.crossed_edges[x] # e.crossed_edges[y]
                  /\ ~InList(edges[i], e.crossed_edges)

\* C3 witness: an arbitrary integer point set with a recorded crossing.
C3_Witness ==
    /\ pc = "edges" /\ calls = 1 /\ args.pset = "any"
    /\ \E i \in 1..Len(edges) : edge_objs[edges[i]].num_intersections > 0

\* C10: a second set_crossings call on the same edge set leaves every
\* edge's num_intersections and crossed_edges as the first call left them.
C10_SetCrossingsIdempotent ==
    [][(calls = 1 /\ calls' = 2) => edge_objs' = edge_objs]_vars

\* the position of reference r in the list refs
PosIn(r, refs) == CHOOSE i \in 1..Len(refs) : refs[i] = r

\* C11: remove_uncrossed_edges returns exactly the edges with at least one
\* crossing, in their original relative order, the i-th returned edge having
\* id i; a retained edge keeps its crossed_edges and num_intersections (and
\* its endpoints and color), and every edge a retained edge lists in
\* crossed_edges is itself retained.
C11_RemoveUncrossed ==
    [][(pc = "edges" /\ pc' = "pruned") =>
        LET crossed == { i \in 1..Len(edges) :
                           \E j \in 1..Len(edges) :
                              j # i /\ (\/ do_intersect(EdgeAt(i), EdgeAt(j))
                                        \/ do_intersect(EdgeAt(j), EdgeAt(i))) }
        IN  /\ Len(edges') = Cardinality(crossed)
            /\ \A a \in 1..Len(edges') :
                  /\ InList(edges'[a], edges)
                  /\ PosIn(edges'[a], edges) \in crossed
                  /\ edge_objs'[edges'[a]].id = a - 1
                  /\ edge_objs'[edges'[a]] =
                        [edge_objs[edges'[a]] EXCEPT !.id = a - 1]
                  /\ \A x \in 1..Len(edge_objs'[edges'[a]].crossed_edges) :
                        InList(edge_objs'[edges'[a]].crossed_edges[x], edges')
            /\ \A a, b \in 1..Len(edges') :
                  a < b => PosIn(edges'[a], edges) < PosIn(edges'[b], edges)
    ]_vars

\* C11 witness: a pruned list that kept some edges and dropped others.
C11_Witness ==
    /\ pc = "pruned"
    /\ Len(edges) > 0
    /\ Len(edges) < Len(edge_objs)
    /\ \A a \in 1..Len(edges) : edge_objs[edges[a]].num_intersections > 0

\* the edge list is the one generate_all_edges returned
EdgesGenerated ==
    pc \in {"edges", "ready", "built", "raised", "solved", "colored",
            "convert_raised", "converted", "plot_raised", "done"}

\* C12: generate_all_edges over n points returns n(n-1)/2 edges, one per
\* unordered pair of distinct points, in the combinatorial order of the
\* index pairs, the i-th edge having id i, so the ids are [0, m) and an id
\* is the edge's list index: the variables of the model are indexed by them
\* and the color read from x_vars[v] lands on the edge with id v.
C12_AllEdges ==
    EdgesGenerated =>
        LET np == Len(points)
            m == Len(edges)
        IN  /\ m = (np * (np - 1)) \div 2
            /\ \A a, b \in 1..np :
                  a < b =>
                     Cardinality({ i \in 1..m : /\ EdgeAt(i).p = points[a]
                                                /\ EdgeAt(i).q = points[b] }) = 1
            /\ \A i, j \in 1..m :
                  i < j =>
                     \/ EdgeAt(i).p.id < EdgeAt(j).p.id
                     \/ /\ EdgeAt(i).p.id = EdgeAt(j).p.id
                        /\ EdgeAt(i).q.id < EdgeAt(j).q.id
            /\ \A i \in 1..m : EdgeAt(i).id = i - 1
            /\ { EdgeAt(i).id : i \in 1..m } = 0..(m - 1)
            /\ model.state = "built" =>
                  \A ci \in 1..Len(model.constrs) :
                     \A x \in 1..Len(model.constrs[ci].lhs) :
                        model.constrs[ci].lhs[x][1] \in 0..(m - 1)
            /\ (pc \in {"colored", "converted", "done"} /\ status = "OPTIMAL") =>
                  \A i \in 1..m :
                     \A c \in 0..(k - 1) :
                        X[EdgeAt(i).id][c] = 1 <=> EdgeAt(i).color = c

\* C12 witness: the six edges of a four-point set, colored from the
\* variables of their ids.
C12_Witness ==
    /\ pc = "colored"
    /\ Len(points) = 4 /\ Len(edges) = 6
    /\ \E i, j \in 1..Len(edges) : EdgeAt(i).color # EdgeAt(j).color

(***************************************************************************)
(* Claims about the randomized generators.                                 *)
(***************************************************************************)
\* point p lies on the circle of radius r, in one of the modelled directions
OnCircle(p, r) ==
    \E j \in 1..NumDirs : p.x = r * Dirs[j][1] /\ p.y = r * Dirs[j][2]

\* C13: two_convex_layers(n) returns, for every n >= 1, exactly n points:
\* floor(n/2) on the unit circle and ceil(n/2) on the circle of radius 4,
\* with unique ids forming [0, n).
C13_TwoConvexLayers ==
    (pc = "returned" /\ args.pset = "two_convex_layers") =>
        LET idx == 1..Len(points)
        IN  /\ Len(points) = args.n
            /\ Cardinality({ i \in idx : OnCircle(points[i], 1) }) = args.n \div 2
            /\ Cardinality({ i \in idx : OnCircle(points[i], OuterRadius) }) =
                  args.n - (args.n \div 2)
            /\ \A i, j \in idx : i # j => points[i].id # points[j].id
            /\ { points[i].id : i \in idx } = 0..(args.n - 1)

\* no three points of pts on a line and no two at the same coordinates
GeneralPosition(pts) ==
    /\ \A i, j, l \in 1..Len(pts) :
          (i < j /\ j < l) =>
             (pts[j].x - pts[i].x) * (pts[l].y - pts[i].y) #
                (pts[l].x - pts[i].x) * (pts[j].y - pts[i].y)
    /\ \A i, j \in 1..Len(pts) :
          i # j => <<pts[i].x, pts[i].y>> # <<pts[j].x, pts[j].y>>

\* C14: every point set random_position(n, size) returns, for every n >= 1
\* and size >= 0, has no three collinear points and no two points of
\* distinct ids at the same coordinates; a candidate failing the check is
\* dropped as a whole before the next one is drawn.
C14_RandomGeneralPosition ==
    [][args.pset = "random" =>
          /\ pc' = "returned" => GeneralPosition(points')
          /\ (pc = "while" /\ pc' = "body") => points' = <<>>
    ]_vars

\* C16: with the default size, for every n >= 1, the rejection loops of
\* random_position(n) and two_convex_layers(n) eventually return a point
\* set, under fair random sampling.
C16_GeneratorsTerminate ==
    (args.size = None) ~> (pc = "returned")

(***************************************************************************)
(* Claims about the ILP model, the cycle enumerator and the verification.  *)
(***************************************************************************)
\* the edges at positions i and j are related by crossed_edges
Crosses(i, j) == InList(edges[j], EdgeAt(i).crossed_edges)

GroupOf(constrs, g) == SelectSeq(constrs, LAMBDA con : con.group = g)

NoOptionalRule ==
    /\ ~args.n1_constraints
    /\ args.forbidden_cycles = <<>>
    /\ ~args.cover_all_vertices

AllAssignments(m, kk) == [0..(m - 1) -> [0..(kk - 1) -> {0, 1}]]

Colorings(m, kk) == [0..(m - 1) -> 0..(kk - 1)]

\* C4: in plane mode (k_planar < 0) with no optional rule, a 0/1 assignment
\* satisfies the model exactly when every edge has exactly one color and no
\* two edges related by crossed_edges share a color; the constrained pairs
\* are exactly the crossed_edges pairs, for every color.
C4_PlaneModel ==
    (pc = "built" /\ args.k_planar < 0 /\ NoOptionalRule) =>
        LET m == Len(edges)
            proper(xx) ==
                /\ \A e \in 0..(m - 1) :
                      Cardinality({c \in 0..(k - 1) : xx[e][c] = 1}) = 1
                /\ \A i, j \in 1..m :
                      Crosses(i, j) =>
                         ~\E c \in 0..(k - 1) :
                              xx[EdgeAt(i).id][c] = 1 /\ xx[EdgeAt(j).id][c] = 1
            plane == GroupOf(model.constrs, 2)
        IN  /\ m * k <= MaxVars =>
                  \A xx \in AllAssignments(m, k) :
                      Sat(xx, model.constrs) <=> proper(xx)
            /\ \A col \in Colorings(m, k) :
                  Sat(XOf(col, m, k), model.constrs) <=> proper(XOf(col, m, k))
            /\ { {plane[i].lhs[1], plane[i].lhs[2]} : i \in 1..Len(plane) } =
                  { {Var(EdgeAt(ij[1]).id, c), Var(EdgeAt(ij[2]).id, c)} :
                      <<ij, c>> \in { ij \in (1..m) \X (1..m) : Crosses(ij[1], ij[2]) }
                                      \X (0..(k - 1)) }
            /\ \A i \in 1..Len(plane) :
                  plane[i].sense = "<=" /\ plane[i].rhs = Const(1)

\* C4 witness: the plane model of the convex four-point set with two
\* colors, which constrains the crossing diagonals.
C4_Witness ==
    /\ pc = "built" /\ args.k_planar < 0 /\ NoOptionalRule
    /\ n = 4 /\ k = 2
    /\ Len(GroupOf(model.constrs, 2)) > 0

\* the number of edges crossing the edge at position i that have its color
SameColorCrossings(col, i) ==
    Cardinality({ j \in 1..Len(edges) :
                    Crosses(i, j) /\ col[EdgeAt(j).id] = col[EdgeAt(i).id] })

\* C5: for every k_planar >= 0 an assignment of one color per edge satisfies
\* the crossing constraints exactly when every edge is crossed by at most
\* k_planar edges of its own color; the right-hand side of a k-plane
\* constraint is k_planar when e has color c and at least the number of
\* crossed edges when it has not.
C5_KPlanarModel ==
    (pc = "built" /\ args.k_planar >= 0) =>
        LET m == Len(edges)
            crossing == GroupOf(model.constrs, 2)
        IN  /\ \A col \in Colorings(m, k) :
                  Sat(XOf(col, m, k), crossing) <=>
                     \A i \in 1..m : SameColorCrossings(col, i) <= args.k_planar
            /\ \A i \in 1..Len(crossing) :
                  crossing[i].rhs.terms # <<>> =>
                     /\ crossing[i].rhs.const + crossing[i].rhs.terms[1][1] = args.k_planar
                     /\ crossing[i].rhs.const >= Len(crossing[i].lhs)
                     /\ Len(crossing[i].rhs.terms) = 1

\* C5 witness: the 1-plane model of the convex five-point set with two
\* colors; it has a constraint whose bound depends on the edge's own color.
C5_Witness ==
    /\ pc = "built" /\ args.k_planar = 1 /\ n = 5 /\ k = 2
    /\ \E i \in 1..Len(model.constrs) :
          model.constrs[i].group = 2 /\ model.constrs[i].rhs.terms # <<>>

\* the edge ids of the cycle through the vertices of cyc, read cyclically
CycleEdgeIds(cyc) ==
    { EdgeAt(i).id : i \in { i \in 1..Len(edges) :
         \E x \in 1..Len(cyc) :
            {EdgeAt(i).p.id, EdgeAt(i).q.id} = {cyc[x], cyc[(x % Len(cyc)) + 1]} } }

\* the cyclic vertex sequences of length l on the vertex set [0, nn)
CyclesOn(nn, l) ==
    { cyc \in [1..l -> 0..(nn - 1)] : \A x, y \in 1..l : x # y => cyc[x] # cyc[y] }

\* C6: with forbidden_cycles = L the model is built and bounds, for every
\* cycle of a length in L on [0, n) and every color c, the sum of the
\* cycle's edge variables at c by (cycle length - 1).
C6_ForbiddenCycles ==
    (pc \notin {"start", "init_raised", "ready"}) =>
        /\ model.state = "built"
        /\ \A li \in 1..Len(args.forbidden_cycles) :
              \A cyc \in CyclesOn(n, args.forbidden_cycles[li]) :
                 \A c \in 0..(k - 1) :
                    \E i \in 1..Len(model.constrs) :
                       LET con == model.constrs[i]
                       IN  /\ con.group = 4
                           /\ { con.lhs[x] : x \in 1..Len(con.lhs) } =
                                 { Var(e, c) : e \in CycleEdgeIds(cyc) }
                           /\ Len(con.lhs) = Len(cyc)
                           /\ con.sense = "<="
                           /\ con.rhs = Const(Len(cyc) - 1)

CycleEdgeSet(cyc) ==
    { {cyc[x], cyc[(x % Len(cyc)) + 1]} : x \in 1..Len(cyc) }

SeqRange(seq) == { seq[i] : i \in 1..Len(seq) }

\* C7: for every 4-subset of [0, n) generate_all_cycles emits exactly 3
\* cycles, each on 4 distinct vertices of the subset, pairwise distinct as
\* edge sets; the output has 3*C(n,4) entries of length 4 and C(n,3) of
\* length 3.
C7_AllCycles ==
    (pc \notin {"start", "init_raised", "ready"}) =>
        LET c3 == SelectSeq(all_cycles, LAMBDA cyc : Len(cyc) = 3)
            c4 == SelectSeq(all_cycles, LAMBDA cyc : Len(cyc) = 4)
            has3 == InList(3, args.forbidden_cycles)
            has4 == InList(4, args.forbidden_cycles)
        IN  /\ Len(c3) + Len(c4) = Len(all_cycles)
            /\ Len(c4) = IF has4
                         THEN 3 * ((n * (n - 1) * (n - 2) * (n - 3)) \div 24)
                         ELSE 0
            /\ Len(c3) = IF has3 THEN (n * (n - 1) * (n - 2)) \div 6 ELSE 0
            /\ has4 =>
                  \A S \in { S \in SUBSET (0..(n - 1)) : Cardinality(S) = 4 } :
                     LET on == { i \in 1..Len(c4) : SeqRange(c4[i]) \subseteq S }
                     IN  /\ Cardinality(on) = 3
                         /\ \A i \in on : SeqRange(c4[i]) = S
                         /\ \A i \in on : Cardinality(CycleEdgeSet(c4[i])) = 4
                         /\ \A i, j \in on :
                               i # j => CycleEdgeSet(c4[i]) # CycleEdgeSet(c4[j])
            /\ has3 =>
                  \A S \in { S \in SUBSET (0..(n - 1)) : Cardinality(S) = 3 } :
                     Cardinality({ i \in 1..Len(c3) : SeqRange(c3[i]) = S }) = 1

\* C7 witness: generate_all_cycles(5, [4]) has returned its 15 cycles.
C7_Witness ==
    /\ pc \notin {"start", "init_raised", "ready"}
    /\ args.forbidden_cycles = <<4>> /\ n = 5
    /\ Len(all_cycles) = 15

\* C8: the plane-partition model of convex_position(5) with 2 colors,
\* n1_constraints and no forbidden cycles has no satisfying assignment (the
\* engine never reports OPTIMAL, and reports INFEASIBLE when no time limit
\* is set); with n1_constraints, the exactly-one-color and the cardinality
\* constraints are jointly satisfiable only if k*(n-1) = n(n-1)/2.
C8_CardinalityInfeasible ==
    /\ (pc = "built" /\ args.n1_constraints) =>
          LET m == Len(edges)
              both == GroupOf(model.constrs, 1) \o GroupOf(model.constrs, 3)
          IN  /\ m = (n * (n - 1)) \div 2
              /\ (\E col \in Colorings(m, k) : Sat(XOf(col, m, k), both)) =>
                    k * (n - 1) = (n * (n - 1)) \div 2
    /\ (/\ pc \notin {"start", "init_raised", "ready", "built", "raised"}
        /\ n = 5 /\ k = 2 /\ args.k_planar < 0
        /\ args.n1_constraints /\ args.forbidden_cycles = <<>>) =>
          /\ status # "OPTIMAL"
          /\ args.timelimit = None => status = "INFEASIBLE"

\* C8 witness: the engine has reported INFEASIBLE for the scenario.
C8_Witness ==
    /\ pc = "solved" /\ status = "INFEASIBLE"
    /\ n = 5 /\ k = 2 /\ args.k_planar < 0
    /\ args.n1_constraints /\ args.forbidden_cycles = <<>>
    /\ ~args.cover_all_vertices

\* G is connected: every split of its nodes in two parts is bridged by an edge
Connected(G) ==
    /\ G.nodes # {}
    /\ \A S \in SUBSET G.nodes :
          (S # {} /\ S # G.nodes) =>
             \E e \in G.edges : e \cap S # {} /\ e \ S # {}

SpanningTree(G) ==
    Cardinality(G.edges) = Cardinality(G.nodes) - 1 /\ Connected(G)

\* C9 as stated: is_pst_partition() returns true exactly when every
\* color-class graph the solver holds has (number of nodes - 1) edges and is
\* connected, for any list of graphs held.
C9_PstPartitionAnyList ==
    pst_result.called =>
        (pst_result.value <=>
            \A i \in 1..Len(colorclasses_nx) : SpanningTree(colorclasses_nx[i]))

\* C9 amended: is_pst(G) is true exactly when G has (number of nodes - 1)
\* edges and is connected, and is_pst_partition() returns true exactly when
\* the solver holds at least one color-class graph and every graph it holds
\* passes is_pst; with no graph held it returns false.
C9_PstPartitionNonEmpty ==
    /\ \A i \in 1..Len(colorclasses_nx) :
          is_pst(colorclasses_nx[i]) <=> SpanningTree(colorclasses_nx[i])
    /\ pst_result.called =>
          (pst_result.value <=>
              /\ Len(colorclasses_nx) > 0
              /\ \A i \in 1..Len(colorclasses_nx) : SpanningTree(colorclasses_nx[i]))

\* C9 witness: is_pst_partition() returned true on two color classes.
C9_Witness ==
    /\ pst_result.called /\ pst_result.value
    /\ Len(colorclasses_nx) = 2

(***************************************************************************)
(* Claims about a compute_solution run, as properties of its steps.        *)
(***************************************************************************)
\* a run that is over has invoked the solving engine
EngineInvokedInRun ==
    pc' \in {"done", "raised"} => status' # "none"

\* the engine is invoked on the model as built, and after its invocation
\* neither the model nor the outcome changes again
EngineNotReinvoked ==
    /\ (status = "none" /\ status' # "none") =>
          (model.state = "built" /\ model' = model)
    /\ status # "none" => (status' = status /\ X' = X /\ model' = model)

\* a color is written only after OPTIMAL, on an edge whose color is unset,
\* as a value in [0, k), before any color class exists; the model gives every
\* edge exactly one variable at 1; the classes are built from colored edges
ColorsWrittenOnce ==
    /\ \A o \in DOMAIN edge_objs :
          edge_objs'[o].color # edge_objs[o].color =>
             /\ status = "OPTIMAL"
             /\ edge_objs[o].color = None
             /\ edge_objs'[o].color \in 0..(k - 1)
             /\ colorclasses_nx = <<>>
             /\ Cardinality({ c \in 0..(k - 1) : X[edge_objs[o].id][c] = 1 }) = 1
             /\ \E ci \in 1..Len(model.constrs) :
                   /\ model.constrs[ci].group = 1
                   /\ model.constrs[ci].sense = "="
                   /\ model.constrs[ci].rhs = Const(1)
                   /\ SeqRange(model.constrs[ci].lhs) =
                         { Var(edge_objs[o].id, c) : c \in 0..(k - 1) }
    /\ colorclasses_nx' # colorclasses_nx =>
          /\ status = "OPTIMAL"
          /\ colorclasses_nx = <<>>
          /\ edge_objs' = edge_objs
          /\ \A i \in 1..Len(edges) : EdgeAt(i).color \in 0..(k - 1)

\* after an outcome other than OPTIMAL the colors are unset, there is no
\* color class and no Edge or Point has changed
NoSolutionLeavesUnset ==
    status' \in {"INFEASIBLE", "UNKNOWN"} =>
        /\ \A i \in 1..Len(edges') : edge_objs'[edges'[i]].color = None
        /\ colorclasses_nx' = <<>>
        /\ edge_objs' = edge_objs
        /\ edges' = edges
        /\ points' = points

\* after the solver's construction only the color of an Edge changes
OnlyColorsChange ==
    pc # "start" =>
        /\ points' = points
        /\ edges' = edges
        /\ \A o \in DOMAIN edge_objs :
              edge_objs' [o] = [edge_objs[o] EXCEPT !.color = edge_objs'[o].color]

\* C15: in every compute_solution run the solving engine is invoked exactly
\* once, never again and never on a relaxed model; edge colors are written
\* only after an OPTIMAL outcome, each edge's exactly once, to a value in
\* [0, k), before the color classes are built; after INFEASIBLE or UNKNOWN
\* every color is still unset, no color class exists and no other Edge or
\* Point field has changed.
C15_SolveOnceColorOnce ==
    [][/\ EngineInvokedInRun
       /\ EngineNotReinvoked
       /\ ColorsWrittenOnce
       /\ NoSolutionLeavesUnset
       /\ OnlyColorsChange]_vars

====
